---- MODULE Spec2Model ----
(***************************************************************************)
(* TimedWorker (include/tw/timed_worker.hpp): one handle, the thread that  *)
(* runs the user task, and the asynchronous join the destructor starts.    *)
(*                                                                         *)
(* Three threads take steps: the owner (request_stop, emergency_stop and   *)
(* the destructor, statement by statement), the runner (the jthread body)  *)
(* and the joiner (the std::async task that joins the jthread).  Time is a *)
(* discrete steady clock that ticks between any two steps.                 *)
(*                                                                         *)
(* The log sink is taken to serialise concurrent writes, as the sink       *)
(* contract asks of the caller; a write either appends or throws.          *)
(***************************************************************************)
EXTENDS Naturals, Sequences, FiniteSets

\* Largest configured timeout, in clock ticks.
MaxTimeout == 2
\* Last instant of the steady clock the model follows.
MaxClock == 3

\* what() texts of the std::exception a task may throw.
Descriptions == {"oops", "boom"}

\* The user callables: how the task behaves with respect to the stop token.
\*   coop          loops until stop_requested(), then returns
\*   finite        ignores the token and returns by itself at some point
\*   never         ignores the token and never returns
\*   throw_std     throws a std::exception with description what
\*   throw_unknown throws something that is no std::exception
Tasks ==
    {[kind |-> k, what |-> ""] : k \in {"coop", "finite", "never", "throw_unknown"}}
        \cup {[kind |-> "throw_std", what |-> d] : d \in Descriptions}

VARIABLES
    task,            \* the user callable bound by make_timed_worker
    sinkThrows,      \* whether the log sink throws on a write
    clock,           \* Clock::now()
    w,               \* the TimedWorker object's fields
    stop,            \* the jthread's stop state: requested, and whether cb is registered
    _log,            \* what the log sink has accepted
    ownerPc,         \* the owner: "alive", then its position in ~TimedWorker
    now,             \* ~TimedWorker local
    deadline,        \* ~TimedWorker local
    fut,             \* shared state of the future std::async returned
    thr,             \* the jthread captured by the async lambda
    waitStatus,      \* what fut.wait_until returned
    runnerPc,        \* position of the thread body
    caught,          \* the exception the runner caught
    calls,           \* how many times func(st) was invoked
    terminated,      \* std::terminate was called: the process is gone
    stopCalled,      \* the owner called request_stop()
    emergencyCalled, \* the owner called emergency_stop()
    moved,           \* the handle was handed on with std::move
    cbRuns           \* how many times the stop_callback was invoked

vars == <<task, sinkThrows, clock, w, stop, _log, ownerPc, now, deadline, fut, thr,
          waitStatus, runnerPc, caught, calls, terminated, stopCalled, emergencyCalled,
          moved, cbRuns>>

ownerVars == <<ownerPc, now, deadline, waitStatus>>
inputVars == <<task, sinkThrows>>
historyVars == <<stopCalled, emergencyCalled, moved, cbRuns>>

----------------------------------------------------------------------------
\* Log lines
ForcedDetachLine == [kind |-> "[TimedWorker] FORCED detach", what |-> ""]
UnknownLine == [kind |-> "[TimedWorker] unknown exception", what |-> ""]
UnhandledLine(d) == [kind |-> "[TimedWorker] unhandled exception: ", what |-> d]

Count(l, line) == Cardinality({i \in 1..Len(l) : l[i] = line})

----------------------------------------------------------------------------
\* Pure pieces of the code

\* std::min on time points
MinTime(a, b) == IF b < a THEN b ELSE a
\* a deadline that forgets the absolute deadline
NominalDeadline_Relative(n, h) == n + h._timeout

\* auto deadline = std::min(now + _timeout, _absDeadline);
NominalDeadline(n, h) == MinTime(n + h._timeout, h._absDeadline)
\* a destructor that never looks at _emergency
Escalate_Ignored(h, n, d) == d

\* if (_emergency.load()) deadline = now;
Escalate(h, n, d) == IF h._emergency THEN n ELSE d
\* an emergency_stop() that gives the thread up on the spot
EmergencyStop_Detaches(h) == [h EXCEPT !._emergency = TRUE, !._detached = TRUE]

\* _emergency.store(true)
EmergencyStop(h) == [h EXCEPT !._emergency = TRUE]

\* a request that does not reach the stop state
StopRequested_Lost(s) == s

\* std::stop_source::request_stop: the stop state afterwards
StopRequested(s) == [s EXCEPT !.requested = TRUE]

\* a stop source that runs its callbacks on every request
CallbackInvoked_EveryRequest(s) == s.cb

\* std::stop_source::request_stop: only the request that changes the stop
\* state runs the registered stop_callback
CallbackInvoked(s) == ~s.requested /\ s.cb

\* std::stop_source::request_stop: the first request runs the registered
\* stop_callback in the requesting thread; the callback stores _emergency.
StopCallback(s, h) == IF CallbackInvoked(s) THEN EmergencyStop(h) ELSE h

\* the invocation count after one more invocation (the model follows it up to 2)
Ran(n) == IF n < 2 THEN n + 1 ELSE n
\* a registration that never runs the callback itself
RegisterCallback_NeverAtOnce(s, h) == h

\* std::stop_callback cb(st, ...): registering on a token whose stop was
\* already requested invokes the callback at once, in the registering thread.
RegisterCallback(s, h) == IF s.requested THEN EmergencyStop(h) ELSE h
\* a thread body that forgets the store
StoreDone_Skipped(h) == h

\* a thread body that skips the callable when stop was already requested
Invoke_UnlessStopped(s, n) == IF s.requested THEN n ELSE n + 1

\* try { func(st); }: the callable is entered whatever the stop state is
Invoke(s, n) == n + 1

\* _done.store(true, release)
StoreDone(h) == [h EXCEPT !._done = TRUE]

\* _thr.join() on the fast path
Join(h) == [h EXCEPT !._thr = "empty"]
\* a destructor without the fast path
DoneBranch_AlwaysBounded(h) == "read_now"

\* the branch on _done.load(acquire)
DoneBranch(h) == IF h._done THEN "plain_join" ELSE "read_now"
\* a detach() that forgets the flag
Detach_NoFlag(h) == [h EXCEPT !._thr = "empty"]

\* a detach() that also reports the worker as done
Detach_MarksDone(h) == [h EXCEPT !._detached = TRUE, !._done = TRUE, !._thr = "empty"]

\* detach(): _detached = true; _thr is overwritten with the bytes of an empty
\* jthread (it was moved from before, so it is empty on both sides)
Detach(h) == [h EXCEPT !._detached = TRUE, !._thr = "empty"]

\* fut.wait_until(deadline): ready once the shared state is ready, timeout
\* once the deadline has passed, and blocked until one of the two
FutureStatus(f, c, d) ==
    IF f = "ready" THEN "ready" ELSE IF c >= d THEN "timeout" ELSE "blocked"

\* a future whose destructor does not wait (one not made by std::async)
FutureReleased_AtOnce(f) == TRUE

\* ~future on the shared state std::async made: the destructor returns
\* once the asynchronous task has finished
FutureReleased(f) == f = "ready"

\* _log << line, on a sink that accepts the write
Append_log(l, line) == Append(l, line)

----------------------------------------------------------------------------
Init ==
    /\ task \in Tasks
    /\ sinkThrows \in BOOLEAN
    /\ clock = 0
    /\ \E t \in 0..MaxTimeout :
          w = [_timeout |-> t, _absDeadline |-> clock + t, _thr |-> "joinable",
               _done |-> FALSE, _emergency |-> FALSE, _detached |-> FALSE]
    /\ stop = [requested |-> FALSE, cb |-> FALSE]
    /\ _log = <<>>
    /\ ownerPc = "alive"
    /\ now = 0
    /\ deadline = 0
    /\ fut = "none"
    /\ thr = "empty"
    /\ waitStatus = "none"
    /\ runnerPc = "start"
    /\ caught = "none"
    /\ calls = 0
    /\ terminated = FALSE
    /\ stopCalled = FALSE
    /\ emergencyCalled = FALSE
    /\ moved = FALSE
    /\ cbRuns = 0

----------------------------------------------------------------------------
\* Time

Tick ==
    /\ ~terminated
    /\ clock < MaxClock
    /\ clock' = clock + 1
    /\ UNCHANGED <<w, stop, _log, ownerVars, fut, thr, runnerPc, caught, calls,
                   terminated, inputVars, historyVars>>

----------------------------------------------------------------------------
\* The owner, while the handle is alive

request_stop ==
    /\ ~terminated
    /\ ownerPc = "alive"
    /\ w' = StopCallback(stop, w)
    /\ stop' = StopRequested(stop)
    /\ stopCalled' = TRUE
    /\ cbRuns' = IF CallbackInvoked(stop) THEN Ran(cbRuns) ELSE cbRuns
    /\ UNCHANGED <<clock, _log, ownerVars, fut, thr, runnerPc, caught, calls,
                   terminated, inputVars, emergencyCalled, moved>>

emergency_stop ==
    /\ ~terminated
    /\ ownerPc = "alive"
    /\ w' = EmergencyStop(w)
    /\ emergencyCalled' = TRUE
    /\ UNCHANGED <<clock, stop, _log, ownerVars, fut, thr, runnerPc, caught, calls,
                   terminated, inputVars, stopCalled, moved, cbRuns>>

\* process_worker(std::move(w1)) of the move test: the move constructor and
\* move assignment are defaulted, and defined as deleted because of the
\* std::atomic_bool members and the reference member, so the one way to hand
\* a handle on is to bind it to a TimedWorker&&.  Nothing is transferred:
\* the parameter names the same object, on which the function calls
\* request_stop() and reads done().
process_worker ==
    /\ ~terminated
    /\ ownerPc = "alive"
    /\ ~moved
    /\ moved' = TRUE
    /\ w' = StopCallback(stop, w)
    /\ stop' = StopRequested(stop)
    /\ stopCalled' = TRUE
    /\ cbRuns' = IF CallbackInvoked(stop) THEN Ran(cbRuns) ELSE cbRuns
    /\ UNCHANGED <<clock, _log, ownerVars, fut, thr, runnerPc, caught, calls,
                   terminated, inputVars, emergencyCalled>>

----------------------------------------------------------------------------
\* ~TimedWorker, one statement per step

\* if (_thr.joinable())
DtorEnter ==
    /\ ~terminated
    /\ ownerPc = "alive"
    /\ ownerPc' = IF w._thr = "joinable" THEN "check_done" ELSE "returned"
    /\ UNCHANGED <<clock, w, stop, _log, now, deadline, waitStatus, fut, thr,
                   runnerPc, caught, calls, terminated, inputVars, historyVars>>

\* if (_done.load(acquire))
DtorCheckDone ==
    /\ ~terminated
    /\ ownerPc = "check_done"
    /\ ownerPc' = DoneBranch(w)
    /\ UNCHANGED <<clock, w, stop, _log, now, deadline, waitStatus, fut, thr,
                   runnerPc, caught, calls, terminated, inputVars, historyVars>>

\* _thr.join(); return;   join blocks until the thread body has ended
DtorPlainJoin ==
    /\ ~terminated
    /\ ownerPc = "plain_join"
    /\ runnerPc = "exited"
    /\ w' = Join(w)
    /\ ownerPc' = "returned"
    /\ UNCHANGED <<clock, stop, _log, now, deadline, waitStatus, fut, thr,
                   runnerPc, caught, calls, terminated, inputVars, historyVars>>

\* auto now = Clock::now(); auto deadline = std::min(now + _timeout, _absDeadline);
DtorReadNow ==
    /\ ~terminated
    /\ ownerPc = "read_now"
    /\ now' = clock
    /\ deadline' = NominalDeadline(clock, w)
    /\ ownerPc' = "request_stop"
    /\ UNCHANGED <<clock, w, stop, _log, waitStatus, fut, thr,
                   runnerPc, caught, calls, terminated, inputVars, historyVars>>

\* _thr.request_stop();
DtorRequestStop ==
    /\ ~terminated
    /\ ownerPc = "request_stop"
    /\ w' = StopCallback(stop, w)
    /\ stop' = StopRequested(stop)
    /\ ownerPc' = "load_emergency"
    /\ cbRuns' = IF CallbackInvoked(stop) THEN Ran(cbRuns) ELSE cbRuns
    /\ UNCHANGED <<clock, _log, now, deadline, waitStatus, fut, thr, runnerPc,
                   caught, calls, terminated, inputVars, stopCalled,
                   emergencyCalled, moved>>

\* if (_emergency.load(relaxed)) deadline = now;
DtorLoadEmergency ==
    /\ ~terminated
    /\ ownerPc = "load_emergency"
    /\ deadline' = Escalate(w, now, deadline)
    /\ ownerPc' = "launch_async"
    /\ UNCHANGED <<clock, w, stop, _log, now, waitStatus, fut, thr,
                   runnerPc, caught, calls, terminated, inputVars, historyVars>>

\* auto fut = std::async(std::launch::async, [thr = std::move(_thr)]() mutable { thr.join(); });
DtorLaunchAsync ==
    /\ ~terminated
    /\ ownerPc = "launch_async"
    /\ thr' = w._thr
    /\ w' = [w EXCEPT !._thr = "empty"]
    /\ fut' = "pending"
    /\ ownerPc' = "wait_until"
    /\ UNCHANGED <<clock, stop, _log, now, deadline, waitStatus,
                   runnerPc, caught, calls, terminated, inputVars, historyVars>>

\* if (fut.wait_until(deadline) != std::future_status::ready)
DtorWaitUntil ==
    /\ ~terminated
    /\ ownerPc = "wait_until"
    /\ FutureStatus(fut, clock, deadline) # "blocked"
    /\ waitStatus' = FutureStatus(fut, clock, deadline)
    /\ ownerPc' = IF FutureStatus(fut, clock, deadline) = "ready"
                  THEN "fut_dtor" ELSE "log_forced"
    /\ UNCHANGED <<clock, w, stop, _log, now, deadline, fut, thr,
                   runnerPc, caught, calls, terminated, inputVars, historyVars>>

\* try { _log << "[TimedWorker] FORCED detach ..."; } catch (...) {}
DtorLogForced ==
    /\ ~terminated
    /\ ownerPc = "log_forced"
    /\ _log' = IF sinkThrows THEN _log ELSE Append_log(_log, ForcedDetachLine)
    /\ ownerPc' = "detach"
    /\ UNCHANGED <<clock, w, stop, now, deadline, waitStatus, fut, thr,
                   runnerPc, caught, calls, terminated, inputVars, historyVars>>

\* detach();
DtorDetach ==
    /\ ~terminated
    /\ ownerPc = "detach"
    /\ w' = Detach(w)
    /\ ownerPc' = "fut_dtor"
    /\ UNCHANGED <<clock, stop, _log, now, deadline, waitStatus, fut, thr,
                   runnerPc, caught, calls, terminated, inputVars, historyVars>>

\* end of the block: ~future of a std::async future blocks until the
\* asynchronous task has finished; then the destructor returns.
DtorFutureDtor ==
    /\ ~terminated
    /\ ownerPc = "fut_dtor"
    /\ FutureReleased(fut)
    /\ ownerPc' = "returned"
    /\ UNCHANGED <<clock, w, stop, _log, now, deadline, waitStatus, fut, thr,
                   runnerPc, caught, calls, terminated, inputVars, historyVars>>

----------------------------------------------------------------------------
\* The joiner: the std::async task

\* thr.join(): returns once the thread body has ended; the future becomes ready
AsyncJoin ==
    /\ ~terminated
    /\ fut = "pending"
    /\ runnerPc = "exited"
    /\ thr' = "empty"
    /\ fut' = "ready"
    /\ UNCHANGED <<clock, w, stop, _log, ownerVars, runnerPc, caught, calls,
                   terminated, inputVars, historyVars>>

----------------------------------------------------------------------------
\* The runner: the jthread body

\* std::stop_callback cb(st, ...); then func(st) is entered
RunnerRegisterCallback ==
    /\ ~terminated
    /\ runnerPc = "start"
    /\ w' = RegisterCallback(stop, w)
    /\ stop' = [stop EXCEPT !.cb = TRUE]
    /\ calls' = Invoke(stop, calls)
    /\ runnerPc' = "task"
    /\ cbRuns' = IF stop.requested THEN Ran(cbRuns) ELSE cbRuns
    /\ UNCHANGED <<clock, _log, ownerVars, fut, thr, caught,
                   terminated, inputVars, stopCalled, emergencyCalled, moved>>

\* func(st) returns
TaskReturns ==
    /\ ~terminated
    /\ runnerPc = "task"
    /\ \/ task.kind = "finite"
       \/ task.kind = "coop" /\ stop.requested
    /\ runnerPc' = "set_done"
    /\ UNCHANGED <<clock, w, stop, _log, ownerVars, fut, thr, caught, calls,
                   terminated, inputVars, historyVars>>

\* func(st) throws
TaskThrows ==
    /\ ~terminated
    /\ runnerPc = "task"
    /\ task.kind \in {"throw_std", "throw_unknown"}
    /\ caught' = IF task.kind = "throw_std" THEN "std" ELSE "unknown"
    /\ runnerPc' = "catch"
    /\ UNCHANGED <<clock, w, stop, _log, ownerVars, fut, thr, calls,
                   terminated, inputVars, historyVars>>

\* catch (std::exception const& ex) { _log << "... unhandled exception: " << ex.what(); }
\* catch (...) { _log << "... unknown exception"; }
\* The write is not guarded: an exception from the sink leaves the thread
\* function, and std::terminate ends the process.
RunnerLogException ==
    /\ ~terminated
    /\ runnerPc = "catch"
    /\ IF sinkThrows
       THEN /\ terminated' = TRUE
            /\ UNCHANGED <<_log, runnerPc>>
       ELSE /\ _log' = Append_log(_log, IF caught = "std" THEN UnhandledLine(task.what)
                                                          ELSE UnknownLine)
            /\ runnerPc' = "set_done"
            /\ UNCHANGED terminated
    /\ UNCHANGED <<clock, w, stop, ownerVars, fut, thr, caught, calls,
                   inputVars, historyVars>>

\* _done.store(true, std::memory_order_release);
RunnerStoreDone ==
    /\ ~terminated
    /\ runnerPc = "set_done"
    /\ w' = StoreDone(w)
    /\ runnerPc' = "cb_dtor"
    /\ UNCHANGED <<clock, stop, _log, ownerVars, fut, thr, caught, calls,
                   terminated, inputVars, historyVars>>

\* end of the body: ~stop_callback deregisters cb, the thread ends
RunnerExit ==
    /\ ~terminated
    /\ runnerPc = "cb_dtor"
    /\ stop' = [stop EXCEPT !.cb = FALSE]
    /\ runnerPc' = "exited"
    /\ UNCHANGED <<clock, w, _log, ownerVars, fut, thr, caught, calls,
                   terminated, inputVars, historyVars>>

----------------------------------------------------------------------------
OwnerCall == request_stop \/ emergency_stop \/ process_worker

Dtor ==
    \/ DtorCheckDone \/ DtorPlainJoin \/ DtorReadNow \/ DtorRequestStop
    \/ DtorLoadEmergency \/ DtorLaunchAsync \/ DtorWaitUntil \/ DtorLogForced
    \/ DtorDetach \/ DtorFutureDtor

Runner ==
    \/ RunnerRegisterCallback \/ TaskReturns \/ TaskThrows
    \/ RunnerLogException \/ RunnerStoreDone \/ RunnerExit

Next == Tick \/ OwnerCall \/ DtorEnter \/ Dtor \/ AsyncJoin \/ Runner

Spec == Init /\ [][Next]_vars

\* Every thread that can take a step eventually takes one, and time passes.
\* The owner is not obliged to call anything or to destroy the handle.
FairSpec ==
    /\ Spec
    /\ WF_vars(Tick) /\ WF_vars(Dtor) /\ WF_vars(AsyncJoin) /\ WF_vars(Runner)

\* Only the destroying thread, the joiner and the clock are sure to advance;
\* nothing is assumed about the progress of the task thread.
OwnerFairSpec ==
    /\ Spec
    /\ WF_vars(Tick) /\ WF_vars(Dtor) /\ WF_vars(AsyncJoin)

----------------------------------------------------------------------------
TypeOK ==
    /\ task \in Tasks
    /\ sinkThrows \in BOOLEAN
    /\ clock \in 0..MaxClock
    /\ w._timeout \in 0..MaxTimeout
    /\ w._thr \in {"joinable", "empty"}
    /\ w._done \in BOOLEAN /\ w._emergency \in BOOLEAN /\ w._detached \in BOOLEAN
    /\ fut \in {"none", "pending", "ready"}
    /\ waitStatus \in {"none", "ready", "timeout"}
    /\ runnerPc \in {"start", "task", "catch", "set_done", "cb_dtor", "exited"}
    /\ calls \in 0..1

----------------------------------------------------------------------------
\* Positions of ~TimedWorker

\* past the _done check, on the path that bounds the wait
BoundedPath == {"read_now", "request_stop", "load_emergency", "launch_async",
                "wait_until", "log_forced", "detach", "fut_dtor"}

\* the destructor is running
InTeardown == ownerPc \in BoundedPath \cup {"check_done", "plain_join"}

\* the user callable has not returned or thrown yet
TaskRunning == runnerPc \in {"start", "task"}

\* the forced-detach diagnostic as the sink holds it
ForcedLogged == Count(_log, ForcedDetachLine)

----------------------------------------------------------------------------
\* C1: once the destructor of a thread-owning handle has started, it
\* eventually returns to its caller, whatever the task does (the process
\* ending in std::terminate is not counted as a hang).
C1_TeardownTerminates ==
    InTeardown ~> (ownerPc = "returned" \/ terminated)

\* C2: after emergency_stop() on a task that teardown finds still running,
\* the destructor finishes without any step of the runner: with only the
\* destroying thread, the joiner and the clock sure to advance, the
\* destructor returns while the task is still in the user callable (or the
\* runner has moved on by itself in the meantime).
C2_EmergencyTeardownNeedsNoRunnerStep ==
    [](emergencyCalled /\ ownerPc \in BoundedPath /\ TaskRunning
          => <>(ownerPc = "returned" \/ terminated \/ ~TaskRunning))

\* C3: a task that returns as soon as it sees the stop request is never
\* abandoned: when T > 0 and teardown started before the absolute deadline
\* with the task unfinished, teardown ends with detached() false and no
\* forced-detach line.  Stated for the teardowns that end before their
\* nominal deadline min(now + T, absolute deadline), so that no expired time
\* budget can account for a detach.
C3_CooperativeTaskNotAbandoned ==
    (/\ task.kind = "coop"
     /\ w._timeout > 0
     /\ ownerPc = "returned" /\ fut # "none"
     /\ now < w._absDeadline
     /\ clock < NominalDeadline(now, w))
        => (~w._detached /\ ForcedLogged = 0)

\* C4: when the wait in teardown ends by the deadline and not by the join,
\* teardown writes the forced-detach diagnostic exactly once (the sink holds
\* one such line, or none when the sink refused the write) and sets _detached.
C4_DeadlineFirstForcesDetach ==
    /\ ForcedLogged <= 1
    /\ (waitStatus = "timeout" /\ ownerPc \in {"detach", "fut_dtor", "returned"})
          => ForcedLogged = IF sinkThrows THEN 0 ELSE 1
    /\ (waitStatus = "timeout" /\ ownerPc \in {"fut_dtor", "returned"})
          => w._detached
    /\ ForcedLogged = 1 => waitStatus = "timeout"

C4_Witness ==
    /\ waitStatus = "timeout" /\ ownerPc = "returned"
    /\ w._detached /\ ForcedLogged = 1

\* C5: after emergency_stop(), a teardown that reaches its wait while the
\* task is still in the user callable does not wait at all, whatever the
\* timeout: wait_until gives timeout at once, and the forced-detach path
\* logs the diagnostic and sets _detached.
C5_EmergencyForcesDetach ==
    /\ (emergencyCalled /\ ownerPc = "wait_until" /\ TaskRunning)
          => FutureStatus(fut, clock, deadline) = "timeout"
    /\ (emergencyCalled /\ waitStatus = "timeout" /\ ownerPc \in {"fut_dtor", "returned"})
          => (w._detached /\ ForcedLogged = IF sinkThrows THEN 0 ELSE 1)

C5_Witness ==
    /\ emergencyCalled /\ ~stopCalled
    /\ w._timeout = MaxTimeout /\ clock = 0
    /\ ownerPc = "fut_dtor" /\ waitStatus = "timeout" /\ TaskRunning
    /\ w._detached /\ ForcedLogged = 1

\* the destructor took, or has finished, the plain join
PlainPath == ownerPc = "plain_join" \/ (ownerPc = "returned" /\ fut = "none")

\* C6: a teardown that finds _done set performs a plain join: it takes the
\* fast path, _detached stays false, no forced-detach line is written, no
\* asynchronous join or deadline wait is started, and the stop state is
\* requested only if the owner's request_stop() requested it.
C6_CompletedTaskPlainJoin ==
    /\ [][(ownerPc = "check_done" /\ w._done /\ ownerPc' # ownerPc)
             => ownerPc' = "plain_join"]_vars
    /\ [](PlainPath => /\ ~w._detached
                       /\ ForcedLogged = 0
                       /\ fut = "none" /\ waitStatus = "none"
                       /\ (stop.requested => stopCalled))

C6_Witness ==
    /\ ownerPc = "returned" /\ fut = "none"
    /\ w._done /\ ~stop.requested /\ ~w._detached

\* C7: _done starts false, is written only by the runner's store after the
\* one invocation of the callable has ended, goes from false to true, and
\* never goes back.
C7_DoneMonotonic ==
    /\ w._done = FALSE
    /\ [][w._done' # w._done
             => (/\ ~w._done /\ w._done'
                 /\ runnerPc = "set_done" /\ runnerPc' = "cb_dtor"
                 /\ calls = 1)]_vars
    /\ [][w._done => w._done']_vars

C7_Witness ==
    /\ w._done /\ stopCalled /\ emergencyCalled
    /\ ownerPc = "returned" /\ w._detached

\* the runner is past its catch handlers
PastHandlers == runnerPc \in {"set_done", "cb_dtor", "exited"}

\* C8: a failure of the user callable stays inside the runner: a
\* std::exception leaves one line with the prefix and its what(), anything
\* else leaves one unknown-exception line, and in both cases the runner goes
\* on to store _done and the thread ends normally (no std::terminate).
C8_TaskFailureContained ==
    /\ caught # "none" => ~terminated
    /\ (caught = "std" /\ PastHandlers)
          => (Count(_log, UnhandledLine(task.what)) = 1 /\ Count(_log, UnknownLine) = 0)
    /\ (caught = "unknown" /\ PastHandlers)
          => (Count(_log, UnknownLine) = 1 /\ Len(_log) - ForcedLogged = 1)
    /\ (caught # "none" /\ runnerPc \in {"cb_dtor", "exited"}) => w._done

\* C9: a failing write to the log sink is discarded wherever it happens: in
\* teardown _detached is still set after the failed forced-detach write, and
\* in the runner the failed write of a task-failure line does not end the
\* process and _done is still stored.
C9_LogFailureDiscarded ==
    /\ (sinkThrows /\ waitStatus = "timeout" /\ ownerPc \in {"fut_dtor", "returned"})
          => w._detached
    /\ (sinkThrows /\ runnerPc = "catch") => ~terminated
    /\ (sinkThrows /\ runnerPc \in {"cb_dtor", "exited"}) => w._done

\* C10: once the destructor of a thread-owning handle has returned, _done
\* or _detached is true.
C10_TeardownResolves ==
    ownerPc = "returned" => (w._done \/ w._detached)

C10_Witness ==
    /\ ownerPc = "returned" /\ w._detached
    /\ task.kind = "finite" /\ ~emergencyCalled /\ ~stopCalled

\* C11: moving a handle transfers the thread: after the move the source
\* owns no thread, and destroying the source is a no-op that goes straight
\* from the joinable check to the end, changing no flag and writing nothing.
C11_MoveTransfersOwnership ==
    moved => (/\ w._thr = "empty"
              /\ ~InTeardown
              /\ ~w._detached /\ ForcedLogged = 0)

\* C12: done() is true after the task finished or the worker detached: in
\* every state where _detached is true, _done is true too.
C12_DetachedImpliesDone ==
    w._detached => w._done

\* C13: emergency_stop() stores _emergency and nothing else: the stop state
\* the task polls, the runner's position, _done, _detached, the log and the
\* destructor's locals are as before the call.
C13_EmergencyStopOnlyEscalates ==
    [][(~emergencyCalled /\ emergencyCalled')
          => (/\ w' = [w EXCEPT !._emergency = TRUE]
              /\ UNCHANGED <<stop, runnerPc, caught, calls, _log, ownerVars,
                             fut, thr, terminated, clock>>)]_vars

C13_Witness ==
    /\ emergencyCalled /\ w._emergency
    /\ ~stop.requested /\ runnerPc = "task" /\ task.kind = "coop"
    /\ ~w._done /\ ~w._detached /\ ownerPc = "alive"

\* a step of the owner on the live handle: one of its calls
OwnerCallStep ==
    /\ ownerPc = "alive" /\ ownerPc' = "alive"
    /\ runnerPc' = runnerPc /\ clock' = clock

\* C14: request_stop() and emergency_stop() are idempotent: a repeated call
\* by the owner, and teardown's request after the owner's, change neither
\* the stop state nor any flag of the handle, and the stop_callback is
\* invoked at most once whatever the number and order of the requests.
C14_StopCallsIdempotent ==
    /\ [][(OwnerCallStep /\ stopCalled /\ emergencyCalled' = emergencyCalled)
             => UNCHANGED <<w, stop, cbRuns>>]_vars
    /\ [][(OwnerCallStep /\ emergencyCalled /\ stopCalled' = stopCalled /\ moved' = moved)
             => UNCHANGED <<w, stop, cbRuns>>]_vars
    /\ [][(ownerPc = "request_stop" /\ ownerPc' = "load_emergency" /\ stopCalled)
             => UNCHANGED <<w, stop, cbRuns>>]_vars
    /\ [](cbRuns <= 1)

C14_Witness ==
    /\ moved /\ emergencyCalled /\ ownerPc = "load_emergency"
    /\ cbRuns = 1 /\ stop.requested /\ w._emergency /\ ~w._done

DeadlineSet == ownerPc \in {"launch_async", "wait_until"}

\* C16: the deadline teardown waits until is now when escalated is set and
\* min(now + T, construction instant + T) otherwise; it is never later than
\* now + T nor than the absolute deadline; the absolute deadline is never
\* recomputed; a teardown that starts at or after the absolute deadline
\* waits zero time.
C16_DeadlineWithinBothBounds ==
    /\ [](DeadlineSet => deadline <= now + w._timeout /\ deadline <= w._absDeadline)
    /\ [][w._absDeadline' = w._absDeadline]_vars

\* C16, amended: as above, except that the escalated deadline is now even
\* when now is already past the absolute deadline; what is never exceeded is
\* now + T and the later of now and the absolute deadline, so the wait itself
\* never lasts beyond either bound.
C16_DeadlineComputation ==
    /\ [][(ownerPc = "load_emergency" /\ ownerPc' = "launch_async")
             => deadline' = IF w._emergency THEN now
                            ELSE IF now + w._timeout < w._absDeadline
                                 THEN now + w._timeout ELSE w._absDeadline]_vars
    /\ [](DeadlineSet => /\ deadline <= now + w._timeout
                         /\ (deadline <= w._absDeadline \/ deadline = now)
                         /\ (now >= w._absDeadline => deadline <= now))
    /\ [](ownerPc = "wait_until" /\ now >= w._absDeadline
             => FutureStatus(fut, clock, deadline) # "blocked")
    /\ [](w._absDeadline = w._timeout)
    /\ [][w._absDeadline' = w._absDeadline /\ w._timeout' = w._timeout]_vars

C16_Witness ==
    /\ ownerPc = "wait_until" /\ ~w._emergency
    /\ w._timeout = MaxTimeout /\ now = 1 /\ deadline = w._absDeadline
    /\ deadline < now + w._timeout

\* C17: the runner invokes the callable exactly once, also when a stop was
\* requested before the body begins, and stores _done only after that
\* invocation has returned or its exception was handled.
C17_CallableInvokedOnce ==
    /\ [](calls <= 1)
    /\ [](runnerPc # "start" => calls = 1)
    /\ [](w._done => calls = 1 /\ runnerPc \in {"cb_dtor", "exited"})
    /\ [][(runnerPc = "start" /\ runnerPc' # "start")
             => (runnerPc' = "task" /\ calls' = 1)]_vars
    /\ [][(~w._done /\ w._done') => runnerPc = "set_done"]_vars

\* teardown requested the stop and read _emergency unset (its deadline is
\* later than now), so the callback that set the flag ran at registration:
\* the stop request came before the body began
C17_Witness ==
    /\ w._done /\ calls = 1 /\ runnerPc = "exited"
    /\ ownerPc = "wait_until" /\ deadline > now
    /\ w._emergency /\ cbRuns = 1 /\ ~emergencyCalled /\ ~stopCalled
    /\ task.kind = "coop"

\* C18: under fair scheduling, once a cooperative stop has been requested,
\* by the owner or by teardown, a task that polls the stop token in a loop
\* sees the request and returns, and _done becomes true.
C18_PollingTaskStops ==
    (task.kind = "coop" /\ stop.requested) ~> (runnerPc \in {"set_done", "cb_dtor", "exited"})

C18_PollingTaskDone ==
    /\ C18_PollingTaskStops
    /\ (task.kind = "coop" /\ stop.requested) ~> w._done

C18_Witness ==
    /\ task.kind = "coop" /\ stop.requested /\ w._done
    /\ ownerPc = "alive" /\ stopCalled /\ ~moved

\* the runner still has steps to take on the handle's flags, stop state or log
RunnerUsesHandle == runnerPc # "exited"

C20_AbandonedAfterStopRequest ==
    /\ []((w._detached \/ ForcedLogged > 0) => stop.requested)
    /\ [][w._detached' # w._detached
             => (ownerPc = "detach" /\ ownerPc' = "fut_dtor" /\ w._detached')]_vars

C20_Witness ==
    /\ w._detached /\ ForcedLogged = 1 /\ stop.requested
    /\ ~stopCalled /\ ~emergencyCalled /\ cbRuns = 0

====
